---- MODULE Spec2Model ----
(***************************************************************************)
(* State-machine model of the wronai/edge tooling: the in-process          *)
(* benchmark harness (benchmark_model, compare_models), the conversion     *)
(* dispatcher (convert_model and its two strategies), the validation       *)
(* harness (validate_model), the command lines built on them, the remote   *)
(* benchmark driver (scripts/run_benchmark.py) and the HTTP smoke-test     *)
(* scripts (test_endpoints.py, scripts/test_onnx_service.py).              *)
(*                                                                         *)
(* Python floats are modelled as exact rationals [num, den]; rounding is   *)
(* outside the model.  Strings that the code inspects character by         *)
(* character (model_type, file names) are sequences of one-character       *)
(* strings.                                                                *)
(***************************************************************************)
EXTENDS Integers, Sequences, FiniteSets, TLC

VARIABLES pc, entry, exc, clock, rss, log, bm, fs, cmp, val, cv, cli, rb, st

vars == <<pc, entry, exc, clock, rss, log, bm, fs, cmp, val, cv, cli, rb, st>>

\* what benchmark_model leaves alone
notBm == <<entry, fs, cmp, val, cv, cli, rb, st>>

\* what compare_models leaves alone
notCmp == <<entry, clock, rss, log, bm, fs, val, cv, cli, rb, st>>

\* what validate_model leaves alone
notVal == <<entry, clock, rss, log, bm, fs, cmp, cv, cli, rb, st>>

\* what convert_model leaves alone
notCv == <<entry, clock, rss, log, bm, fs, cmp, val, cli, rb, st>>

(***************************************************************************)
(* Bounds of the model.                                                    *)
(***************************************************************************)
MaxWarmup == 2
MaxRuns == 3
MaxTick == 1
MaxRss == 2
MaxPaths == 3
MaxCompareRuns == 1
MaxFill == 2
MaxCliPaths == 2

(***************************************************************************)
(* Exact rational arithmetic standing in for Python float arithmetic.      *)
(***************************************************************************)
Abs(n) == IF n < 0 THEN -n ELSE n

RECURSIVE GCD(_, _)
GCD(a, b) == IF b = 0 THEN a ELSE GCD(b, a % b)

Rat(n, d) ==
    LET g == GCD(Abs(n), d)
    IN  [num |-> n \div g, den |-> d \div g]

RatSub(x, y) ==
    LET g == GCD(x.den, y.den)
    IN  Rat(x.num * (y.den \div g) - y.num * (x.den \div g), x.den * (y.den \div g))

RatMulInt(x, k) == Rat(x.num * k, x.den)

RatDivInt(x, k) == Rat(x.num, x.den * k)

IntDivRat(k, x) == Rat(k * x.den, x.num)

RatIsNeg(x) == x.num < 0

Zero == Rat(0, 1)

(***************************************************************************)
(* Strings as sequences of characters, and the part of pathlib the code    *)
(* uses: Path(p).stem.                                                     *)
(***************************************************************************)
RECURSIVE SplitOn(_, _)
SplitOn(s, sep) ==
    IF s = <<>>
    THEN << <<>> >>
    ELSE LET rest == SplitOn(Tail(s), sep)
         IN  IF Head(s) = sep
             THEN << <<>> >> \o rest
             ELSE << <<Head(s)>> \o Head(rest) >> \o Tail(rest)

\* pathlib drops empty and "." components when it parses a path
IsRealPart(c) == c # <<>> /\ c # <<".">>

PathParts(s) == SelectSeq(SplitOn(s, "/"), IsRealPart)

PathName(s) ==
    LET parts == PathParts(s)
    IN  IF parts = <<>> THEN <<>> ELSE parts[Len(parts)]

\* str.rfind, 1-based; 0 when the character does not occur
RFind(s, ch) ==
    LET hits == {k \in 1..Len(s) : s[k] = ch}
    IN  IF hits = {} THEN 0 ELSE CHOOSE k \in hits : \A h \in hits : h <= k

\* PurePath.stem: the final component without its last suffix
Stem(s) ==
    LET name == PathName(s)
        i == RFind(name, ".")
    IN  IF 1 < i /\ i < Len(name) THEN SubSeq(name, 1, i - 1) ELSE name

(***************************************************************************)
(* Values.                                                                 *)
(***************************************************************************)
None == [tag |-> "None"]

ModelKinds == {"ok", "load_fails", "run_fails"}

(***************************************************************************)
(* benchmark.py: _get_process_memory, rss bytes converted to MB.           *)
(***************************************************************************)
_get_process_memory(rss_bytes) == Rat(rss_bytes, 1024 * 1024)

(***************************************************************************)
(* benchmark.py lines 71-83: the metrics and the returned dictionary.      *)
(* Division by runs = 0 or by total_time = 0 raises ZeroDivisionError.     *)
(***************************************************************************)
Metrics(total_time, delta, runs) ==
    IF runs = 0 \/ total_time.num = 0
    THEN [tag |-> "raise", exc |-> "ZeroDivisionError"]
    ELSE [tag |-> "return",
          value |-> [avg_latency |-> RatMulInt(RatDivInt(total_time, runs), 1000),
                     throughput |-> IntDivRat(runs, total_time),
                     memory_mb |-> IF RatIsNeg(delta) THEN Zero ELSE delta,
                     total_time |-> total_time,
                     runs |-> runs]]

\* mutant: the memory difference is reported without the clamp max(0, .)
BenchmarkMetricsUnclamped(start_time, end_time, start_mem, end_mem, runs) ==
    LET delta == RatSub(end_mem, start_mem)
        m == Metrics(Rat(end_time - start_time, 1), delta, runs)
    IN  IF m.tag = "raise" THEN m
        ELSE [m EXCEPT !.value.memory_mb = delta]

\* mutant: the throughput is computed as total_time / runs
BenchmarkMetricsInverted(start_time, end_time, start_mem, end_mem, runs) ==
    LET total_time == Rat(end_time - start_time, 1)
        m == Metrics(total_time, RatSub(end_mem, start_mem), runs)
    IN  IF m.tag = "raise" THEN m
        ELSE [m EXCEPT !.value.throughput = RatDivInt(total_time, runs)]

\* mutant: zero runs are answered with an all-zero result
BenchmarkMetricsZeroRuns(start_time, end_time, start_mem, end_mem, runs) ==
    IF runs = 0
    THEN [tag |-> "return",
          value |-> [avg_latency |-> Zero, throughput |-> Zero, memory_mb |-> Zero,
                     total_time |-> Rat(end_time - start_time, 1), runs |-> 0]]
    ELSE Metrics(Rat(end_time - start_time, 1), RatSub(end_mem, start_mem), runs)

BenchmarkMetrics(start_time, end_time, start_mem, end_mem, runs) ==
    Metrics(Rat(end_time - start_time, 1), RatSub(end_mem, start_mem), runs)

(***************************************************************************)
(* benchmark.py lines 42-55: the shapes and the random input data.         *)
(* A declared dimension is an int, a symbolic name or unset (None).        *)
(***************************************************************************)
Some(v) == [tag |-> "Some", v |-> v]

DimInt(n) == [kind |-> "int", v |-> n]
DimSym == [kind |-> "str"]
DimNone == [kind |-> "None"]

\* the declared inputs of the sample models: none; x[None, 3];
\* x[N, 2] and y[-1, 0, 2]; a scalar s[]
SampleDeclared ==
    { <<>>,
      << [name |-> "x", shape |-> <<DimNone, DimInt(3)>>] >>,
      << [name |-> "x", shape |-> <<DimSym, DimInt(2)>>],
         [name |-> "y", shape |-> <<DimInt(-1), DimInt(0), DimInt(2)>>] >>,
      << [name |-> "s", shape |-> <<>>] >> }

\* the input_shapes arguments tried
SampleInputShapes ==
    { None,
      Some(<<>>),
      Some(<< <<1, 3>> >>),
      Some(<< <<1, 2>>, <<1, 1, 2>> >>),
      Some(<< <<1, 3>>, <<2, 2>>, <<4>> >>),
      Some(<< <<-1, 3>> >>) }

\* mutant: a zero dimension is kept (dim >= 0 in place of dim > 0)
DeriveDimKeepsZero(dim) ==
    IF dim.kind = "int" /\ dim.v >= 0 THEN dim.v ELSE 1

\* line 47: dim if isinstance(dim, int) and dim > 0 else 1
DeriveDim(dim) ==
    IF dim.kind = "int" /\ dim.v > 0 THEN dim.v ELSE 1

\* lines 47-49: one shape per declared input
DerivedShapes(input_details) ==
    [k \in 1..Len(input_details) |->
        [d \in 1..Len(input_details[k].shape) |-> DeriveDim(input_details[k].shape[d])]]

\* lines 46-49: the shapes used, derived only when none are supplied
ShapesUsed(input_details, input_shapes) ==
    IF input_shapes.tag = "None" THEN DerivedShapes(input_details) ELSE input_shapes.v

Min(a, b) == IF a < b THEN a ELSE b

\* np.random.randn(*shape).astype(...): a negative dimension raises ValueError,
\* no dimension at all yields a float, which has no astype
RandnError(shape) ==
    IF shape = <<>> THEN "AttributeError"
    ELSE IF \E d \in 1..Len(shape) : shape[d] < 0 THEN "ValueError"
    ELSE "none"

\* mutant: every declared input gets a tensor, of shape (1,) when no shape is
\* left for it
InputDataAllDeclared(input_details, shapes, fill) ==
    [nm \in {input_details[k].name : k \in 1..Len(input_details)} |->
        LET k == CHOOSE k \in 1..Len(input_details) : input_details[k].name = nm
        IN  [shape |-> IF k <= Len(shapes) THEN shapes[k] ELSE <<1>>, fill |-> fill]]

\* lines 52-55: the dict built over zip(input_details, input_shapes)
InputData(input_details, shapes, fill) ==
    [nm \in {input_details[k].name : k \in 1..Min(Len(input_details), Len(shapes))} |->
        LET k == CHOOSE k \in 1..Len(input_details) : input_details[k].name = nm
        IN  [shape |-> shapes[k], fill |-> fill]]

\* whether the runtime accepts a tensor shape for a declared input
ShapeFits(declared_shape, shape) ==
    /\ Len(shape) = Len(declared_shape)
    /\ \A d \in 1..Len(shape) :
          (declared_shape[d].kind = "int" /\ declared_shape[d].v > 0)
              => shape[d] = declared_shape[d].v

\* session.run raises for a model that cannot run, a missing input or a
\* tensor whose shape the declared input does not admit
RunRaises(frame) ==
    \/ frame.model = "run_fails"
    \/ \E k \in 1..Len(frame.declared) :
          \/ frame.declared[k].name \notin DOMAIN frame.input_data.v
          \/ ~ShapeFits(frame.declared[k].shape,
                        frame.input_data.v[frame.declared[k].name].shape)

\* mutant: fresh random tensors are drawn for every call
AfterRunRegenerates(frame, counter) ==
    [frame EXCEPT ![counter] = @ + 1,
                  !.fed = Append(@, frame.input_data),
                  !.input_data =
                      Some([nm \in DOMAIN frame.input_data.v |->
                               [frame.input_data.v[nm] EXCEPT !.fill = (@ % MaxFill) + 1]])]

\* the frame after one session.run(None, input_data) of the loop `counter`
AfterRun(frame, counter) ==
    [frame EXCEPT ![counter] = @ + 1,
                  !.fed = Append(@, frame.input_data)]

(***************************************************************************)
(* The frame of benchmark_model before the call.                           *)
(***************************************************************************)
BmFrame(kind, w, r) ==
    [model |-> kind, warmup |-> w, runs |-> r, i |-> 0, j |-> 0,
     declared |-> <<>>, input_shapes |-> None, shapes |-> None,
     input_data |-> None, fed |-> <<>>,
     start_mem |-> None, start_time |-> None,
     end_time |-> None, end_mem |-> None, ret |-> None]

IdleBm == BmFrame("ok", 0, 0)

IdleCmp ==
    [model_paths |-> <<>>, warmup |-> 0, runs |-> 0, k |-> 0,
     results |-> <<>>, outcomes |-> <<>>]

IdleVal ==
    [file |-> "model", inputs |-> <<>>, outputs |-> <<>>,
     report |-> <<>>, attempted |-> <<>>]

IdleCv ==
    [model_type |-> <<>>, model_path |-> <<>>, output_path |-> <<>>,
     torch |-> FALSE, tf |-> FALSE, load_ok |-> FALSE, export_ok |-> FALSE,
     out |-> None, invoked |-> <<>>, calls |-> <<>>, msg |-> None, ret |-> None,
     input_shape |-> None, dummy_input |-> None]

\* no command line is being run
IdleCli ==
    [argv |-> None, calls |-> <<>>, out |-> <<>>, code |-> None,
     input_shapes |-> None, k |-> 0, results |-> <<>>]

\* no smoke-test script is running
IdleSt ==
    [requests |-> <<>>, probes |-> <<>>, status |-> None]

\* the remote benchmark driver before its first step: times = [], success = 0
IdleRb ==
    [ready |-> "200", i |-> 0, times |-> <<>>, success |-> 0,
     failed |-> 0, errors |-> 0, report |-> None, ret |-> None, status |-> None]

\* what every call starts from: no exception, an empty call log
InitCommon ==
    /\ exc = "none"
    /\ clock = 0
    /\ log = <<>>

InitBenchmark ==
    /\ InitCommon
    /\ st = IdleSt
    /\ cli = IdleCli
    /\ rb = IdleRb
    /\ entry = "benchmark_model"
    /\ pc = "bm_session"
    /\ rss \in 0..MaxRss
    /\ \E kind \in ModelKinds, w \in 0..MaxWarmup, r \in 0..MaxRuns,
          decl \in SampleDeclared, shapes \in SampleInputShapes :
          /\ kind = "load_fails" => decl = <<>>
          /\ bm = [BmFrame(kind, w, r) EXCEPT !.declared = decl,
                                              !.input_shapes = shapes]
    /\ fs = <<>>
    /\ cmp = IdleCmp
    /\ val = IdleVal
    /\ cv = IdleCv

(***************************************************************************)
(* benchmark_model, one action per statement group.                        *)
(***************************************************************************)
\* lines 31-40: ort.InferenceSession(...) raises when the model cannot be loaded
BmSession ==
    /\ pc = "bm_session"
    /\ log' = Append(log, "InferenceSession")
    /\ IF bm.model = "load_fails"
       THEN /\ exc' = "LoadError"
            /\ pc' = "raised"
       ELSE /\ pc' = "bm_inputs"
            /\ UNCHANGED exc
    /\ UNCHANGED <<notBm, clock, rss, bm>>

\* lines 42-55: input details, shapes and the random input data
BmInputs ==
    /\ pc = "bm_inputs"
    /\ LET shapes == ShapesUsed(bm.declared, bm.input_shapes)
           n == Min(Len(bm.declared), Len(shapes))
           bad == {k \in 1..n : RandnError(shapes[k]) # "none"}
       IN  IF bad # {}
           THEN LET first == CHOOSE k \in bad : \A h \in bad : k <= h
                IN  /\ exc' = RandnError(shapes[first])
                    /\ pc' = "raised"
                    /\ bm' = [bm EXCEPT !.shapes = Some(shapes)]
                    /\ log' = log \o [k \in 1..first |-> "randn"]
           ELSE /\ \E fill \in 1..MaxFill :
                      bm' = [bm EXCEPT !.shapes = Some(shapes),
                                       !.input_data = Some(InputData(bm.declared, shapes, fill))]
                /\ log' = log \o [k \in 1..n |-> "randn"]
                /\ pc' = "bm_warmup"
                /\ UNCHANGED exc
    /\ UNCHANGED <<notBm, clock, rss>>

\* one session.run(None, input_data): time passes, resident memory moves
SessionRun ==
    /\ log' = Append(log, "session.run")
    /\ \E d \in 0..MaxTick : clock' = clock + d
    /\ rss' \in 0..MaxRss

\* lines 58-59: for _ in range(warmup): session.run(None, input_data)
BmWarmup ==
    /\ pc = "bm_warmup"
    /\ IF bm.i < bm.warmup
       THEN IF RunRaises(bm)
            THEN /\ exc' = "RunError"
                 /\ pc' = "raised"
                 /\ log' = Append(log, "session.run")
                 /\ bm' = [bm EXCEPT !.fed = Append(@, bm.input_data)]
                 /\ UNCHANGED <<clock, rss>>
            ELSE /\ SessionRun
                 /\ bm' = AfterRun(bm, "i")
                 /\ UNCHANGED <<pc, exc>>
       ELSE /\ pc' = "bm_start_mem"
            /\ UNCHANGED <<exc, clock, rss, log, bm>>
    /\ UNCHANGED notBm

\* line 62: start_mem = _get_process_memory()
BmStartMem ==
    /\ pc = "bm_start_mem"
    /\ bm' = [bm EXCEPT !.start_mem = _get_process_memory(rss)]
    /\ log' = Append(log, "_get_process_memory")
    /\ pc' = "bm_start_time"
    /\ UNCHANGED <<notBm, exc, clock, rss>>

\* line 63: start_time = time.perf_counter()
BmStartTime ==
    /\ pc = "bm_start_time"
    /\ bm' = [bm EXCEPT !.start_time = clock]
    /\ log' = Append(log, "perf_counter")
    /\ pc' = "bm_runs"
    /\ UNCHANGED <<notBm, exc, clock, rss>>

\* lines 65-66: for _ in range(n): session.run(None, input_data)
BmRunLoop(n) ==
    /\ pc = "bm_runs"
    /\ IF bm.j < n
       THEN IF RunRaises(bm)
            THEN /\ exc' = "RunError"
                 /\ pc' = "raised"
                 /\ log' = Append(log, "session.run")
                 /\ bm' = [bm EXCEPT !.fed = Append(@, bm.input_data)]
                 /\ UNCHANGED <<clock, rss>>
            ELSE /\ SessionRun
                 /\ bm' = AfterRun(bm, "j")
                 /\ UNCHANGED <<pc, exc>>
       ELSE /\ pc' = "bm_end_time"
            /\ UNCHANGED <<exc, clock, rss, log, bm>>
    /\ UNCHANGED notBm

\* mutant: the timed loop also runs the warmup count
BmRunsPlusWarmup == BmRunLoop(bm.runs + bm.warmup)

BmRuns == BmRunLoop(bm.runs)

\* mutant: the end memory reading is taken first, inside the timed block
BmEndTimeAfterMemory ==
    /\ pc = "bm_end_time"
    /\ bm' = [bm EXCEPT !.end_mem = _get_process_memory(rss), !.end_time = clock]
    /\ log' = log \o <<"_get_process_memory", "perf_counter">>
    /\ pc' = "bm_metrics"
    /\ UNCHANGED <<notBm, exc, clock, rss>>

\* line 68: end_time = time.perf_counter()
BmEndTime ==
    /\ pc = "bm_end_time"
    /\ bm' = [bm EXCEPT !.end_time = clock]
    /\ log' = Append(log, "perf_counter")
    /\ pc' = "bm_end_mem"
    /\ UNCHANGED <<notBm, exc, clock, rss>>

\* line 69: end_mem = _get_process_memory()
BmEndMem ==
    /\ pc = "bm_end_mem"
    /\ bm' = [bm EXCEPT !.end_mem = _get_process_memory(rss)]
    /\ log' = Append(log, "_get_process_memory")
    /\ pc' = "bm_metrics"
    /\ UNCHANGED <<notBm, exc, clock, rss>>

\* lines 71-83: metrics and return
BmMetrics ==
    /\ pc = "bm_metrics"
    /\ LET m == BenchmarkMetrics(bm.start_time, bm.end_time,
                                 bm.start_mem, bm.end_mem, bm.runs)
       IN  IF m.tag = "raise"
           THEN /\ exc' = m.exc
                /\ pc' = "raised"
                /\ UNCHANGED bm
           ELSE /\ bm' = [bm EXCEPT !.ret = m.value]
                /\ pc' = "done"
                /\ UNCHANGED exc
    /\ UNCHANGED <<notBm, clock, rss, log>>

NextBenchmark ==
    \/ BmSession
    \/ BmInputs
    \/ BmWarmup
    \/ BmStartMem
    \/ BmStartTime
    \/ BmRuns
    \/ BmEndTime
    \/ BmEndMem
    \/ BmMetrics

(***************************************************************************)
(* compare_models.  One action per loop iteration; the call of             *)
(* benchmark_model it makes is summarised by BenchmarkOutcomes.            *)
(***************************************************************************)
\* sample model paths: a/m.onnx, b/m.onnx, a/m2.onnx
PathA == <<"a", "/", "m", ".", "o", "n", "n", "x">>
PathB == <<"b", "/", "m", ".", "o", "n", "n", "x">>
PathC == <<"a", "/", "m", "2", ".", "o", "n", "n", "x">>

Paths == {PathA, PathB, PathC}

PathLists == UNION {[1..n -> Paths] : n \in 0..MaxPaths}

\* every way a call benchmark_model(model_path, warmup=w, runs=r) can end
BenchmarkOutcomes(kind, w, r) ==
    IF kind = "load_fails"
    THEN {[tag |-> "raise", exc |-> "LoadError"]}
    ELSE IF kind = "run_fails" /\ w + r > 0
    THEN {[tag |-> "raise", exc |-> "RunError"]}
    ELSE {BenchmarkMetrics(0, t, _get_process_memory(sm), _get_process_memory(em), r) :
             t \in 0..(r * MaxTick), sm \in 0..MaxRss, em \in 0..MaxRss}

\* results[model_name] = value
DictSet(d, key, value) ==
    [n \in DOMAIN d \cup {key} |-> IF n = key THEN value ELSE d[n]]

\* mutant: a failed model is recorded with an empty entry
CompareStepRecordsFailure(results, model_path, outcome) ==
    IF outcome.tag = "return"
    THEN DictSet(results, Stem(model_path), outcome.value)
    ELSE DictSet(results, Stem(model_path), None)

\* lines 112-126: the body of the loop for one outcome of benchmark_model
CompareStep(results, model_path, outcome) ==
    IF outcome.tag = "return"
    THEN DictSet(results, Stem(model_path), outcome.value)
    ELSE results

InitCompare ==
    /\ InitCommon
    /\ st = IdleSt
    /\ cli = IdleCli
    /\ rb = IdleRb
    /\ entry = "compare_models"
    /\ pc = "cmp_loop"
    /\ rss = 0
    /\ bm = IdleBm
    /\ val = IdleVal
    /\ cv = IdleCv
    /\ fs \in [Paths -> ModelKinds]
    /\ \E paths \in PathLists, w \in 0..MaxWarmup, r \in 0..MaxCompareRuns :
          cmp = [model_paths |-> paths, warmup |-> w, runs |-> r, k |-> 0,
                 results |-> <<>>, outcomes |-> <<>>]

\* lines 112-126: one iteration, for model_paths[k + 1]
CmpIterate ==
    /\ pc = "cmp_loop"
    /\ cmp.k < Len(cmp.model_paths)
    /\ LET model_path == cmp.model_paths[cmp.k + 1]
       IN  \E outcome \in BenchmarkOutcomes(fs[model_path], cmp.warmup, cmp.runs) :
              cmp' = [cmp EXCEPT !.k = @ + 1,
                                 !.results = CompareStep(@, model_path, outcome),
                                 !.outcomes = Append(@, outcome)]
    /\ UNCHANGED <<pc, exc, notCmp>>

\* line 128: return results
CmpReturn ==
    /\ pc = "cmp_loop"
    /\ cmp.k = Len(cmp.model_paths)
    /\ pc' = "done"
    /\ UNCHANGED <<exc, cmp, notCmp>>

NextCompare ==
    \/ CmpIterate
    \/ CmpReturn

SpecCompare == InitCompare /\ [][NextCompare]_vars

SpecBenchmark == InitBenchmark /\ [][NextBenchmark]_vars

\* the in-process harness as a whole: a call of benchmark_model, step by step,
\* or a call of compare_models
InitHarness == InitBenchmark \/ InitCompare

NextHarness == NextBenchmark \/ NextCompare

SpecHarness == InitHarness /\ [][NextHarness]_vars

(***************************************************************************)
(* converters/__init__.py: convert_model and its two strategies.           *)
(***************************************************************************)
UpperCase == <<"A", "B", "C", "D", "E", "F", "G", "H", "I", "J", "K", "L", "M",
               "N", "O", "P", "Q", "R", "S", "T", "U", "V", "W", "X", "Y", "Z">>

LowerCase == <<"a", "b", "c", "d", "e", "f", "g", "h", "i", "j", "k", "l", "m",
               "n", "o", "p", "q", "r", "s", "t", "u", "v", "w", "x", "y", "z">>

LowerChar(c) ==
    IF \E i \in 1..Len(UpperCase) : UpperCase[i] = c
    THEN LowerCase[CHOOSE i \in 1..Len(UpperCase) : UpperCase[i] = c]
    ELSE c

\* str.lower()
StrLower(s) == [i \in 1..Len(s) |-> LowerChar(s[i])]

StrPytorch == <<"p", "y", "t", "o", "r", "c", "h">>
StrTensorflow == <<"t", "e", "n", "s", "o", "r", "f", "l", "o", "w">>

\* the model_type arguments tried
ModelTypes ==
    { StrPytorch,
      <<"P", "y", "T", "o", "r", "c", "h">>,
      <<"P", "Y", "T", "O", "R", "C", "H">>,
      StrTensorflow,
      <<"T", "e", "n", "s", "o", "r", "F", "l", "o", "w">>,
      <<"T", "E", "N", "S", "O", "R", "F", "L", "O", "W">>,
      <<"k", "e", "r", "a", "s">>,
      <<"o", "n", "n", "x">>,
      <<"t", "o", "r", "c", "h">>,
      <<"p", "y", "t", "o", "r", "c", "h", " ">>,
      <<>> }

\* the path arguments tried: m.pt, model.onnx, ./out//m.onnx
PathModel == <<"m", ".", "p", "t">>
PathOut == <<"m", "o", "d", "e", "l", ".", "o", "n", "n", "x">>
PathOutDot == <<".", "/", "o", "u", "t", "/", "/", "m", ".", "o", "n", "n", "x">>

OutputPaths == {PathOut, PathOutDot}

\* Path(p): the parsed path, its components without "" and "."
Path(p) == PathParts(p)

\* mutant: the comparison is made without lower()
StrategyCaseSensitive(model_type) ==
    IF model_type = StrPytorch THEN "_convert_pytorch"
    ELSE IF model_type = StrTensorflow THEN "_convert_tensorflow"
    ELSE "ValueError"

\* lines 34-39: the strategy chosen for a model_type
Strategy(model_type) ==
    IF StrLower(model_type) = StrPytorch THEN "_convert_pytorch"
    ELSE IF StrLower(model_type) = StrTensorflow THEN "_convert_tensorflow"
    ELSE "ValueError"

\* mutant: the message names the framework but not how to install it
MissingDependencyNoHint(strategy) ==
    IF strategy = "_convert_pytorch"
    THEN [text |-> "PyTorch is required for converting PyTorch models.", hint |-> ""]
    ELSE [text |-> "TensorFlow and tf2onnx are required for converting TensorFlow models.",
          hint |-> ""]

\* lines 55 and 103-106: the ImportError raised in place of the framework's own
MissingDependency(strategy) ==
    IF strategy = "_convert_pytorch"
    THEN [text |-> "PyTorch is required for converting PyTorch models.",
          hint |-> "Install with: pip install torch"]
    ELSE [text |-> "TensorFlow and tf2onnx are required for converting TensorFlow models.",
          hint |-> "Install with: pip install tensorflow tf2onnx"]

\* the message of an error raised by a framework routine: its own, no hint
FrameworkMessage(routine) == [text |-> routine, hint |-> ""]

\* a framework routine was called and raised: the exception leaves the strategy
\* and convert_model as it is (no try around lines 70-88 and 108-118)
RoutineRaises(frame, routine) ==
    [frame EXCEPT !.calls = Append(@, routine),
                  !.msg = Some(FrameworkMessage(routine))]

\* the frame of convert_model before the call
CvFrame(model_type, model_path, output_path, torch, tf, load_ok, export_ok) ==
    [model_type |-> model_type, model_path |-> model_path, output_path |-> output_path,
     torch |-> torch, tf |-> tf, load_ok |-> load_ok, export_ok |-> export_ok,
     out |-> None, invoked |-> <<>>, calls |-> <<>>, msg |-> None, ret |-> None,
     input_shape |-> None, dummy_input |-> None]

InitConvert ==
    /\ InitCommon
    /\ st = IdleSt
    /\ cli = IdleCli
    /\ rb = IdleRb
    /\ entry = "convert_model"
    /\ pc = "cv_dispatch"
    /\ rss = 0
    /\ bm = IdleBm
    /\ fs = <<>>
    /\ cmp = IdleCmp
    /\ val = IdleVal
    /\ \E t \in ModelTypes, o \in OutputPaths,
          torch \in BOOLEAN, tf \in BOOLEAN, l \in BOOLEAN, x \in BOOLEAN :
          \E shape \in {None, Some(<<1, 1, 28, 28>>)} :
              cv = [CvFrame(t, PathModel, o, torch, tf, l, x) EXCEPT !.input_shape = shape]

\* lines 31-39: convert_model up to the call of the strategy
CvDispatch ==
    /\ pc = "cv_dispatch"
    /\ LET strategy == Strategy(cv.model_type)
       IN  IF strategy = "ValueError"
           THEN /\ exc' = "ValueError"
                /\ pc' = "raised"
                /\ UNCHANGED cv
           ELSE /\ cv' = [cv EXCEPT !.out = Path(cv.output_path),
                                    !.invoked = Append(@, strategy)]
                /\ pc' = IF strategy = "_convert_pytorch" THEN "pt_import" ELSE "tf_import"
                /\ UNCHANGED exc
    /\ UNCHANGED notCv

\* lines 51-55: import torch
PtImport ==
    /\ pc = "pt_import"
    /\ IF cv.torch
       THEN pc' = "pt_load" /\ UNCHANGED <<exc, cv>>
       ELSE /\ pc' = "raised"
            /\ exc' = "ImportError"
            /\ cv' = [cv EXCEPT !.msg = Some(MissingDependency("_convert_pytorch"))]
    /\ UNCHANGED notCv

\* lines 57-73: defaults, torch.load(model_path), model.eval()
PtLoad ==
    /\ pc = "pt_load"
    /\ IF cv.load_ok
       THEN /\ pc' = "pt_export"
            /\ cv' = [cv EXCEPT !.calls = Append(@, "torch.load")]
            /\ UNCHANGED exc
       ELSE /\ pc' = "raised"
            /\ exc' = "LoadError"
            /\ cv' = RoutineRaises(cv, "torch.load")
    /\ UNCHANGED notCv

\* line 76: dummy_input = torch.randn(1, 3, 224, 224, device=device)
DummyInput(frame) == <<1, 3, 224, 224>>

\* lines 75-90: dummy input, torch.onnx.export(...), return output_path.  An
\* input_shape given by the caller travels in **kwargs to torch.onnx.export,
\* which has no such parameter and raises TypeError.
PtExport ==
    /\ pc = "pt_export"
    /\ LET made == [cv EXCEPT !.dummy_input = Some(DummyInput(cv))]
       IN  IF cv.input_shape.tag = "Some"
           THEN /\ pc' = "raised"
                /\ exc' = "TypeError"
                /\ cv' = RoutineRaises(made, "torch.onnx.export")
           ELSE IF cv.export_ok
           THEN /\ cv' = [made EXCEPT !.ret = cv.out,
                                      !.calls = Append(@, "torch.onnx.export")]
                /\ pc' = "done"
                /\ UNCHANGED exc
           ELSE /\ pc' = "raised"
                /\ exc' = "ExportError"
                /\ cv' = RoutineRaises(made, "torch.onnx.export")
    /\ UNCHANGED notCv

\* lines 99-106: import tensorflow, tf2onnx
TfImport ==
    /\ pc = "tf_import"
    /\ IF cv.tf
       THEN pc' = "tf_load" /\ UNCHANGED <<exc, cv>>
       ELSE /\ pc' = "raised"
            /\ exc' = "ImportError"
            /\ cv' = [cv EXCEPT !.msg = Some(MissingDependency("_convert_tensorflow"))]
    /\ UNCHANGED notCv

\* lines 108-109: tf.keras.models.load_model(model_path)
TfLoad ==
    /\ pc = "tf_load"
    /\ IF cv.load_ok
       THEN /\ pc' = "tf_export"
            /\ cv' = [cv EXCEPT !.calls = Append(@, "load_model")]
            /\ UNCHANGED exc
       ELSE /\ pc' = "raised"
            /\ exc' = "LoadError"
            /\ cv' = RoutineRaises(cv, "load_model")
    /\ UNCHANGED notCv

\* lines 111-120: tf2onnx.convert.from_keras(...), return output_path
TfExport ==
    /\ pc = "tf_export"
    /\ IF cv.export_ok
       THEN /\ cv' = [cv EXCEPT !.ret = cv.out,
                                !.calls = Append(@, "from_keras")]
            /\ pc' = "done"
            /\ UNCHANGED exc
       ELSE /\ pc' = "raised"
            /\ exc' = "ExportError"
            /\ cv' = RoutineRaises(cv, "from_keras")
    /\ UNCHANGED notCv

NextConvert ==
    \/ CvDispatch
    \/ PtImport
    \/ PtLoad
    \/ PtExport
    \/ TfImport
    \/ TfLoad
    \/ TfExport

SpecConvert == InitConvert /\ [][NextConvert]_vars

(***************************************************************************)
(* The validation harness validate_model (spec section 4.2): load, then    *)
(* the input, output and synthetic-inference checks, each recorded under   *)
(* its key of the report.                                                  *)
(***************************************************************************)
MaxDecl == 2

\* tensor names a model may declare; the empty name is what step 2 rules out
TensorNames == {<<>>, <<"x">>, <<"y">>}

\* lists of up to MaxDecl declarations with unique names
DeclLists ==
    {d \in UNION {[1..n -> TensorNames] : n \in 0..MaxDecl} :
        \A a, b \in 1..Len(d) : a # b => d[a] # d[b]}

FileKinds == {"missing", "garbage", "model"}

StepOrder == <<"model_loaded", "model_inputs", "model_outputs", "inference_test">>

\* mutant: a missing file is reported as a corrupt model
LoadOutcomesMissingIsCorrupt(file) ==
    IF file = "model" THEN {[tag |-> "loaded"]}
    ELSE {[tag |-> "raise", exc |-> "ModelCorrupt"], [tag |-> "failed"]}

\* mutant: the session object is built before the bytes are parsed, so a file
\* of non-model bytes counts as loaded
LoadOutcomesGarbageLoads(file) ==
    IF file = "missing" THEN {[tag |-> "raise", exc |-> "FileNotFoundError"]}
    ELSE {[tag |-> "loaded"]}

\* step 1: how constructing the inference session can end
LoadOutcomes(file) ==
    IF file = "missing" THEN {[tag |-> "raise", exc |-> "FileNotFoundError"]}
    ELSE IF file = "garbage"
    THEN {[tag |-> "raise", exc |-> "ModelCorrupt"], [tag |-> "failed"]}
    ELSE {[tag |-> "loaded"]}

\* mutant: the check only looks at the names
CheckTensorSpecsNamesOnly(specs) ==
    \A i \in 1..Len(specs) : specs[i] # <<>>

\* steps 2 and 3: at least one declaration, every name non-empty
CheckTensorSpecs(specs) ==
    /\ Len(specs) > 0
    /\ \A i \in 1..Len(specs) : specs[i] # <<>>

\* step 4: the call returned and produced the declared number of outputs
CheckInference(run, outputs) ==
    /\ run.tag = "return"
    /\ run.count = Len(outputs)

\* ways the one synthetic session.run call can end
RunOutcomes == {[tag |-> "raise"]} \cup {[tag |-> "return", count |-> n] : n \in 0..MaxDecl}

\* mutant: a failed check ends the validation
StepAfterStopsOnFailure(step, passed) ==
    IF ~passed THEN "done"
    ELSE IF step = "model_loaded" THEN "val_inputs"
    ELSE IF step = "model_inputs" THEN "val_outputs"
    ELSE IF step = "model_outputs" THEN "val_inference"
    ELSE "done"

\* where the harness goes after recording a step: on to the next check,
\* except that a failed load ends the validation
StepAfter(step, passed) ==
    IF step = "model_loaded" THEN (IF passed THEN "val_inputs" ELSE "done")
    ELSE IF step = "model_inputs" THEN "val_outputs"
    ELSE IF step = "model_outputs" THEN "val_inference"
    ELSE "done"

Record(report, key, passed) == DictSet(report, key, [passed |-> passed])

InitValidate ==
    /\ InitCommon
    /\ st = IdleSt
    /\ cli = IdleCli
    /\ rb = IdleRb
    /\ entry = "validate_model"
    /\ pc = "val_load"
    /\ rss = 0
    /\ bm = IdleBm
    /\ fs = <<>>
    /\ cmp = IdleCmp
    /\ cv = IdleCv
    /\ \E file \in FileKinds, ins \in DeclLists, outs \in DeclLists :
          /\ file # "model" => ins = <<>> /\ outs = <<>>
          /\ val = [file |-> file, inputs |-> ins, outputs |-> outs,
                    report |-> <<>>, attempted |-> <<>>]

\* step 1: load
ValLoad ==
    /\ pc = "val_load"
    /\ \E o \in LoadOutcomes(val.file) :
          IF o.tag = "raise"
          THEN /\ exc' = o.exc
               /\ pc' = "raised"
               /\ val' = [val EXCEPT !.attempted = Append(@, "model_loaded")]
          ELSE /\ val' = [val EXCEPT
                            !.attempted = Append(@, "model_loaded"),
                            !.report = Record(@, "model_loaded", o.tag = "loaded")]
               /\ pc' = StepAfter("model_loaded", o.tag = "loaded")
               /\ UNCHANGED exc
    /\ UNCHANGED notVal

\* step 2: introspect inputs
ValInputs ==
    /\ pc = "val_inputs"
    /\ LET passed == CheckTensorSpecs(val.inputs)
       IN  /\ val' = [val EXCEPT
                        !.attempted = Append(@, "model_inputs"),
                        !.report = Record(@, "model_inputs", passed)]
           /\ pc' = StepAfter("model_inputs", passed)
    /\ UNCHANGED <<exc, notVal>>

\* step 3: introspect outputs
ValOutputs ==
    /\ pc = "val_outputs"
    /\ LET passed == CheckTensorSpecs(val.outputs)
       IN  /\ val' = [val EXCEPT
                        !.attempted = Append(@, "model_outputs"),
                        !.report = Record(@, "model_outputs", passed)]
           /\ pc' = StepAfter("model_outputs", passed)
    /\ UNCHANGED <<exc, notVal>>

\* step 4: synthetic inference, one session.run call
ValInference ==
    /\ pc = "val_inference"
    /\ \E run \in RunOutcomes :
          LET passed == CheckInference(run, val.outputs)
          IN  /\ val' = [val EXCEPT
                           !.attempted = Append(@, "inference_test"),
                           !.report = Record(@, "inference_test", passed)]
              /\ pc' = StepAfter("inference_test", passed)
    /\ UNCHANGED <<exc, notVal>>

NextValidate ==
    \/ ValLoad
    \/ ValInputs
    \/ ValOutputs
    \/ ValInference

SpecValidate == InitValidate /\ [][NextValidate]_vars

(***************************************************************************)
(* The command lines: `convert` and `benchmark` of wronai_edge/cli/main.py  *)
(* (edge_ai/cli/main.py and edge_ai/cli/benchmark.py hold the same code),   *)
(* and `test-model`, `convert pytorch`, `convert keras`, `convert           *)
(* saved-model` of edge_ai/cli.py.  click validates the arguments, runs the *)
(* command body and turns its end into an exit code: 0 for a return, 1 for  *)
(* click.Abort, ctx.exit(1) or an uncaught exception, 2 for a usage error.  *)
(***************************************************************************)
Digits == <<"0", "1", "2", "3", "4", "5", "6", "7", "8", "9">>

IsDigit(c) == \E k \in 1..Len(Digits) : Digits[k] = c

DigitValue(c) == (CHOOSE k \in 1..Len(Digits) : Digits[k] = c) - 1

RECURSIVE Strip(_)
\* str.strip of blanks, which int() applies to its argument
Strip(s) ==
    IF s = <<>> THEN s
    ELSE IF Head(s) = " " THEN Strip(Tail(s))
    ELSE IF s[Len(s)] = " " THEN Strip(SubSeq(s, 1, Len(s) - 1))
    ELSE s

RECURSIVE DigitsValue(_)
DigitsValue(s) ==
    IF s = <<>> THEN 0
    ELSE 10 * DigitsValue(SubSeq(s, 1, Len(s) - 1)) + DigitValue(s[Len(s)])

\* int(dim): blanks around, an optional sign, then at least one digit
ParseInt(s) ==
    LET t == Strip(s)
        signed == t # <<>> /\ Head(t) \in {"+", "-"}
        body == IF signed THEN Tail(t) ELSE t
    IN  IF body # <<>> /\ \A k \in 1..Len(body) : IsDigit(body[k])
        THEN [tag |-> "int",
              v |-> IF signed /\ Head(t) = "-" THEN 0 - DigitsValue(body)
                    ELSE DigitsValue(body)]
        ELSE [tag |-> "ValueError"]

\* tuple(map(int, input_shape.split(',')))
ParseShape(s) ==
    LET parts == SplitOn(s, ",")
    IN  IF \E k \in 1..Len(parts) : ParseInt(parts[k]).tag = "ValueError"
        THEN [tag |-> "ValueError"]
        ELSE [tag |-> "tuple", v |-> [k \in 1..Len(parts) |-> ParseInt(parts[k]).v]]

\* the --input-shape values tried: not given, '', '1,3', ' 2,-1', '1,a', '1,,3'
SampleShapeOptions ==
    { None,
      Some(<<>>),
      Some(<<"1", ",", "3">>),
      Some(<<" ", "2", ",", "-", "1">>),
      Some(<<"1", ",", "a">>),
      Some(<<"1", ",", ",", "3">>) }

\* a command line with the defaults of every field
Argv(cmd) ==
    [cmd |-> cmd, model_type |-> <<>>, form |-> "option", exists |-> TRUE,
     input_shape |-> None, tf |-> TRUE, outcome |-> "return",
     model_paths |-> <<>>, compare |-> FALSE, warmup |-> 0, runs |-> 0]

\* the process before click parses the command line
CliFrame(argv) ==
    [argv |-> argv, calls |-> <<>>, out |-> <<>>, code |-> None,
     input_shapes |-> None, k |-> 0, results |-> <<>>]

\* one printed line: which kind, and the install hint it carries if any
Line(kind, hint) == [kind |-> kind, hint |-> hint]

\* click rejects the command line: usage message, exit code 2
UsageError(frame) ==
    [frame EXCEPT !.out = Append(@, Line("usage", "")), !.code = Some(2)]

\* the command body ended with exit code `code` after printing `lines`
Exits(frame, lines, code) ==
    [frame EXCEPT !.out = @ \o lines, !.code = Some(code)]

\* what the steps of a command leave alone
notCli == <<entry, clock, rss, log, bm, fs, cmp, val, rb, st>>

FsKinds == ModelKinds \cup {"missing"}

ConvertInvocations ==
    {[Argv("convert") EXCEPT !.model_type = t, !.exists = e] :
        t \in {StrPytorch, StrTensorflow, <<"P", "y", "T", "o", "r", "c", "h">>,
               <<"o", "n", "n", "x">>},
        e \in BOOLEAN}

TestModelInvocations ==
    {[Argv("test-model") EXCEPT !.form = f, !.exists = e, !.outcome = o] :
        f \in {"option", "positional"}, e \in BOOLEAN, o \in {"True", "False", "raise"}}

FrameworkInvocations ==
    {a \in {[Argv(c) EXCEPT !.exists = e, !.input_shape = sh, !.tf = tf, !.outcome = o] :
               c \in {"pytorch", "keras", "saved-model"}, e \in BOOLEAN,
               sh \in SampleShapeOptions, tf \in BOOLEAN,
               o \in {"return", "ImportError", "ConverterError", "Exception"}} :
        /\ a.cmd = "saved-model" => a.input_shape = None
        /\ a.cmd = "pytorch" => a.tf
        /\ ~a.tf => a.outcome = "ImportError"}

BenchmarkInvocations ==
    {[Argv("benchmark") EXCEPT !.model_paths = ps, !.compare = c, !.input_shape = sh,
                               !.runs = r] :
        ps \in UNION {[1..n -> Paths] : n \in 0..MaxCliPaths}, c \in BOOLEAN,
        sh \in {None, Some(<<"1", ",", "3">>), Some(<<"1", ",", "a">>)},
        r \in 0..MaxCompareRuns}

InitCli ==
    /\ InitCommon
    /\ st = IdleSt
    /\ entry = "cli"
    /\ pc = "cli_parse"
    /\ rss = 0
    /\ bm = IdleBm
    /\ cmp = IdleCmp
    /\ val = IdleVal
    /\ rb = IdleRb
    /\ \E argv \in ConvertInvocations \cup TestModelInvocations
                   \cup FrameworkInvocations \cup BenchmarkInvocations :
          /\ cli = CliFrame(argv)
          /\ IF argv.cmd = "convert"
             THEN \E o \in OutputPaths, torch \in BOOLEAN, tf \in BOOLEAN,
                     l \in BOOLEAN, x \in BOOLEAN :
                     cv = CvFrame(argv.model_type, PathModel, o, torch, tf, l, x)
             ELSE cv = IdleCv
          /\ IF argv.cmd = "benchmark"
             THEN /\ fs \in [Paths -> FsKinds]
                  /\ \A q \in Paths :
                        (\A k \in 1..Len(argv.model_paths) : argv.model_paths[k] # q)
                            => fs[q] = "ok"
             ELSE fs = <<>>

(***************************************************************************)
(* convert (wronai_edge/cli/main.py lines 22-36).                          *)
(***************************************************************************)
\* lines 23-24: click.Choice and click.Path(exists=True); line 32 calls
\* convert_model
CliConvertParse ==
    /\ entry = "cli" /\ pc = "cli_parse" /\ cli.argv.cmd = "convert"
    /\ IF cli.argv.model_type \notin {StrPytorch, StrTensorflow} \/ ~cli.argv.exists
       THEN /\ cli' = UsageError(cli)
            /\ pc' = "exited"
       ELSE /\ cli' = [cli EXCEPT !.calls = Append(@, "convert_model")]
            /\ pc' = "cv_dispatch"
    /\ UNCHANGED <<exc, cv, notCli>>

\* mutant: the error is printed but click.Abort is not raised
ConvertEndsWithoutAbort(frame, raised, msg) ==
    IF raised
    THEN Exits(frame, <<Line("error", IF msg.tag = "Some" THEN msg.v.hint ELSE "")>>, 0)
    ELSE Exits(frame, <<Line("success", "")>>, 0)

\* lines 33-36: the success line, or the error line with str(e) and click.Abort
ConvertEnds(frame, raised, msg) ==
    IF raised
    THEN Exits(frame, <<Line("error", IF msg.tag = "Some" THEN msg.v.hint ELSE "")>>, 1)
    ELSE Exits(frame, <<Line("success", "")>>, 0)

CliConvertEnd ==
    /\ entry = "cli" /\ pc \in {"done", "raised"} /\ cli.argv.cmd = "convert"
    /\ cli' = ConvertEnds(cli, pc = "raised", cv.msg)
    /\ pc' = "exited"
    /\ UNCHANGED <<exc, cv, notCli>>

(***************************************************************************)
(* test-model (edge_ai/cli.py lines 38-69).                                *)
(***************************************************************************)
\* lines 39-44: --model-path is a required option of an existing file
CliTestModelParse ==
    /\ entry = "cli" /\ pc = "cli_parse" /\ cli.argv.cmd = "test-model"
    /\ IF cli.argv.form # "option" \/ ~cli.argv.exists
       THEN /\ cli' = UsageError(cli)
            /\ pc' = "exited"
       ELSE /\ UNCHANGED cli
            /\ pc' = "test_model"
    /\ UNCHANGED <<exc, cv, notCli>>

\* mutant: the value returned by the validation call is not looked at
TestModelEndsIgnoringResult(frame, outcome) ==
    IF outcome \in {"True", "False"}
    THEN Exits(frame, <<>>, 0)
    ELSE Exits(frame, <<Line("error", "")>>, 1)

\* lines 59-69: ctx.exit(1) for a false result is raised inside the try, caught
\* by `except Exception` like an error of the call, and ends in ctx.exit(1)
TestModelEnds(frame, outcome) ==
    IF outcome = "True"
    THEN Exits(frame, <<>>, 0)
    ELSE Exits(frame, <<Line("error", "")>>, 1)

CliTestModel ==
    /\ entry = "cli" /\ pc = "test_model"
    /\ cli' = TestModelEnds([cli EXCEPT !.calls = Append(@, "validate_model_cli")],
                            cli.argv.outcome)
    /\ exc' = IF cli.argv.outcome = "raise" THEN "Exception"
              ELSE IF cli.argv.outcome = "False" THEN "Exit"
              ELSE exc
    /\ pc' = "exited"
    /\ UNCHANGED <<cv, notCli>>

(***************************************************************************)
(* convert pytorch | keras | saved-model (edge_ai/cli.py lines 76-285).    *)
(***************************************************************************)
\* the existing-path arguments of the three commands
CliFrameworkParse ==
    /\ entry = "cli" /\ pc = "cli_parse"
    /\ cli.argv.cmd \in {"pytorch", "keras", "saved-model"}
    /\ IF ~cli.argv.exists
       THEN /\ cli' = UsageError(cli)
            /\ pc' = "exited"
       ELSE /\ UNCHANGED cli
            /\ pc' = cli.argv.cmd
    /\ UNCHANGED <<exc, cv, notCli>>

Converter(cmd) ==
    IF cmd = "pytorch" THEN "convert_to_onnx"
    ELSE IF cmd = "keras" THEN "convert_keras_model"
    ELSE "convert_saved_model"

\* lines 202 and 272: the fixed message of the `except ImportError` clauses
FrameworkHint(cmd) ==
    IF cmd = "keras" THEN "Install with: pip install tensorflow"
    ELSE IF cmd = "saved-model" THEN "Install with: pip install tensorflow tf2onnx"
    ELSE ""

\* mutant: the error is printed and the command returns
FrameworkFailsWithoutExit(frame, cmd, error) ==
    Exits(frame, <<Line("error", IF error = "ImportError" THEN FrameworkHint(cmd) ELSE "")>>, 0)

\* the except clauses: print_error(...), ctx.exit(1)
FrameworkFails(frame, cmd, error) ==
    Exits(frame, <<Line("error", IF error = "ImportError" THEN FrameworkHint(cmd) ELSE "")>>, 1)

\* the try block of a command: --input-shape (if any and not empty) is parsed,
\* for keras after `import tensorflow`, then the converter is called once
FrameworkBody(frame, cmd) ==
    LET argv == frame.argv
        given == /\ cmd # "saved-model"
                 /\ argv.input_shape.tag = "Some"
                 /\ argv.input_shape.v # <<>>
    IN  IF cmd = "keras" /\ given /\ ~argv.tf
        THEN [frame |-> FrameworkFails(frame, cmd, "ImportError"), exc |-> "ImportError"]
        ELSE IF given /\ ParseShape(argv.input_shape.v).tag = "ValueError"
        THEN [frame |-> FrameworkFails(frame, cmd, "ValueError"), exc |-> "ValueError"]
        ELSE LET called ==
                     [frame EXCEPT !.calls = Append(@, Converter(cmd)),
                                   !.input_shapes =
                                       IF given
                                       THEN Some(<<ParseShape(argv.input_shape.v).v>>)
                                       ELSE None]
             IN  IF argv.outcome = "return"
                 THEN [frame |-> Exits(called, <<Line("success", "")>>, 0), exc |-> "none"]
                 ELSE [frame |-> FrameworkFails(called, cmd, argv.outcome),
                       exc |-> argv.outcome]

\* lines 96-139
CliPytorch ==
    /\ entry = "cli" /\ pc = "pytorch"
    /\ cli' = FrameworkBody(cli, "pytorch").frame
    /\ exc' = FrameworkBody(cli, "pytorch").exc
    /\ pc' = "exited"
    /\ UNCHANGED <<cv, notCli>>

\* lines 161-215
CliKeras ==
    /\ entry = "cli" /\ pc = "keras"
    /\ cli' = FrameworkBody(cli, "keras").frame
    /\ exc' = FrameworkBody(cli, "keras").exc
    /\ pc' = "exited"
    /\ UNCHANGED <<cv, notCli>>

\* lines 238-285
CliSavedModel ==
    /\ entry = "cli" /\ pc = "saved-model"
    /\ cli' = FrameworkBody(cli, "saved-model").frame
    /\ exc' = FrameworkBody(cli, "saved-model").exc
    /\ pc' = "exited"
    /\ UNCHANGED <<cv, notCli>>

(***************************************************************************)
(* benchmark (wronai_edge/cli/main.py lines 38-116).                       *)
(***************************************************************************)
\* mutant: only the first path is checked
CliBenchmarkParseFirstOnly ==
    /\ entry = "cli" /\ pc = "cli_parse" /\ cli.argv.cmd = "benchmark"
    /\ IF cli.argv.model_paths # <<>> /\ fs[cli.argv.model_paths[1]] = "missing"
       THEN /\ cli' = UsageError(cli)
            /\ pc' = "exited"
       ELSE /\ UNCHANGED cli
            /\ pc' = "bench_body"
    /\ UNCHANGED <<exc, cv, notCli>>

\* line 39: every path given must exist
CliBenchmarkParse ==
    /\ entry = "cli" /\ pc = "cli_parse" /\ cli.argv.cmd = "benchmark"
    /\ IF \E k \in 1..Len(cli.argv.model_paths) : fs[cli.argv.model_paths[k]] = "missing"
       THEN /\ cli' = UsageError(cli)
            /\ pc' = "exited"
       ELSE /\ UNCHANGED cli
            /\ pc' = "bench_body"
    /\ UNCHANGED <<exc, cv, notCli>>

\* mutant: no path aborts the command
NoPathsAborts(frame) == Exits(frame, <<Line("error", "")>>, 1)

\* lines 65-67: the error line, then a plain return
NoPaths(frame) == Exits(frame, <<Line("error", "")>>, 0)

\* lines 65-78: no path is an error line and a plain return; the shapes are
\* parsed outside the try, so a bad one ends the process with a traceback
CliBenchmarkBody ==
    /\ entry = "cli" /\ pc = "bench_body"
    /\ LET argv == cli.argv
       IN  IF argv.model_paths = <<>>
           THEN /\ cli' = NoPaths(cli)
                /\ pc' = "exited"
                /\ UNCHANGED exc
           ELSE IF argv.input_shape.tag = "Some"
                   /\ ParseShape(argv.input_shape.v).tag = "ValueError"
           THEN /\ cli' = Exits(cli, <<Line("traceback", "")>>, 1)
                /\ pc' = "exited"
                /\ exc' = "ValueError"
           ELSE /\ cli' = [cli EXCEPT !.input_shapes =
                                         IF argv.input_shape.tag = "Some"
                                         THEN Some(<<ParseShape(argv.input_shape.v).v>>)
                                         ELSE None]
                /\ pc' = IF argv.compare /\ Len(argv.model_paths) > 1
                         THEN "bench_compare" ELSE "bench_single"
                /\ UNCHANGED exc
    /\ UNCHANGED <<cv, notCli>>

\* lines 81-89 and 114-116: one turn of the loop; an exception of
\* benchmark_model leaves the loop for the except clause of the command
CliBenchmarkCompareStep ==
    /\ entry = "cli" /\ pc = "bench_compare"
    /\ cli.k < Len(cli.argv.model_paths)
    /\ LET model_path == cli.argv.model_paths[cli.k + 1]
           started == [cli EXCEPT !.out = Append(@, Line("benchmarking", "")),
                                  !.calls = Append(@, model_path)]
       IN  \E outcome \in BenchmarkOutcomes(fs[model_path], cli.argv.warmup, cli.argv.runs) :
              IF outcome.tag = "return"
              THEN /\ cli' = [started EXCEPT !.k = @ + 1,
                                             !.results = DictSet(@, model_path, outcome.value)]
                   /\ UNCHANGED <<pc, exc>>
              ELSE /\ cli' = Exits(started, <<Line("error", "")>>, 1)
                   /\ exc' = outcome.exc
                   /\ pc' = "exited"
    /\ UNCHANGED <<cv, notCli>>

\* lines 91-92: the table of all results
CliBenchmarkTabulate ==
    /\ entry = "cli" /\ pc = "bench_compare"
    /\ cli.k = Len(cli.argv.model_paths)
    /\ cli' = Exits(cli, <<Line("table", "")>>, 0)
    /\ pc' = "exited"
    /\ UNCHANGED <<exc, cv, notCli>>

\* lines 94-116: one model only, with a warning when more were given
BenchmarkSingle(model_path) ==
    /\ entry = "cli" /\ pc = "bench_single"
    /\ LET warned == IF Len(cli.argv.model_paths) > 1
                     THEN <<Line("warning", "")>> ELSE <<>>
           started == [cli EXCEPT !.out = @ \o warned \o <<Line("benchmarking", "")>>,
                                  !.calls = Append(@, model_path)]
       IN  \E outcome \in BenchmarkOutcomes(fs[model_path], cli.argv.warmup, cli.argv.runs) :
              IF outcome.tag = "return"
              THEN /\ cli' = Exits([started EXCEPT !.results =
                                       DictSet(@, PathName(model_path), outcome.value)],
                                   <<Line("table", "")>>, 0)
                   /\ UNCHANGED exc
              ELSE /\ cli' = Exits(started, <<Line("error", "")>>, 1)
                   /\ exc' = outcome.exc
    /\ pc' = "exited"
    /\ UNCHANGED <<cv, notCli>>

\* mutant: the model benchmarked is the last one given
CliBenchmarkSingleLastPath ==
    BenchmarkSingle(cli.argv.model_paths[Len(cli.argv.model_paths)])

\* line 100: model_path = model_paths[0]
CliBenchmarkSingle == BenchmarkSingle(cli.argv.model_paths[1])

NextCli ==
    \/ CliConvertParse
    \/ CvDispatch
    \/ PtImport
    \/ PtLoad
    \/ PtExport
    \/ TfImport
    \/ TfLoad
    \/ TfExport
    \/ CliConvertEnd
    \/ CliTestModelParse
    \/ CliTestModel
    \/ CliFrameworkParse
    \/ CliPytorch
    \/ CliKeras
    \/ CliSavedModel
    \/ CliBenchmarkParse
    \/ CliBenchmarkBody
    \/ CliBenchmarkCompareStep
    \/ CliBenchmarkTabulate
    \/ CliBenchmarkSingle

SpecCli == InitCli /\ [][NextCli]_vars


(***************************************************************************)
(* scripts/run_benchmark.py: the remote benchmark driver.  The latency     *)
(* values are not modelled: a recorded sample is the token "ms".  Printed   *)
(* failure lines are counted per kind.                                     *)
(***************************************************************************)
\* line 33: for i in range(100)
NumRequests == 100

\* how the readiness request can end
ReadyOutcomes == {"200", "non-200", "RequestException", "Exception"}

\* how one prediction request can end
ResponseOutcomes == {"200", "non-200", "raises"}

notRb == <<entry, clock, rss, log, bm, fs, cmp, val, cv, cli, st>>

InitRemote ==
    /\ InitCommon
    /\ st = IdleSt
    /\ entry = "run_benchmark"
    /\ pc = "rb_ready"
    /\ rss = 0
    /\ bm = IdleBm
    /\ fs = <<>>
    /\ cmp = IdleCmp
    /\ val = IdleVal
    /\ cv = IdleCv
    /\ cli = IdleCli
    /\ \E ready \in ReadyOutcomes : rb = [IdleRb EXCEPT !.ready = ready]

\* mutant: a model that is not ready is reported and the run goes on
RbReadyContinues ==
    /\ pc = "rb_ready"
    /\ IF rb.ready = "200"
       THEN pc' = "rb_loop" /\ UNCHANGED <<exc, rb>>
       ELSE IF rb.ready = "Exception"
       THEN /\ pc' = "done"
            /\ exc' = "Exception"
            /\ rb' = [rb EXCEPT !.report = Some("error"), !.ret = Some(1),
                                !.status = Some(1)]
       ELSE /\ pc' = "rb_loop"
            /\ rb' = [rb EXCEPT !.report = Some("not ready")]
            /\ UNCHANGED exc
    /\ UNCHANGED notRb

\* lines 17-26: the readiness check; sys.exit(1) raises SystemExit, which the
\* outer `except Exception` does not catch, so the function never returns and
\* the process ends with status 1
RbReady ==
    /\ pc = "rb_ready"
    /\ IF rb.ready = "200"
       THEN pc' = "rb_loop" /\ UNCHANGED <<exc, rb>>
       ELSE IF rb.ready = "Exception"
       THEN /\ pc' = "done"
            /\ exc' = "Exception"
            /\ rb' = [rb EXCEPT !.report = Some("error"), !.ret = Some(1),
                                !.status = Some(1)]
       ELSE /\ pc' = "raised"
            /\ exc' = "SystemExit"
            /\ rb' = [rb EXCEPT !.report = Some("not ready"), !.status = Some(1)]
    /\ UNCHANGED notRb

\* mutant: the success counter is incremented for every response received
AfterResponseCountsAll(frame, response) ==
    IF response = "200"
    THEN [frame EXCEPT !.i = @ + 1, !.times = Append(@, "ms"), !.success = @ + 1]
    ELSE IF response = "non-200"
    THEN [frame EXCEPT !.i = @ + 1, !.failed = @ + 1, !.success = @ + 1]
    ELSE [frame EXCEPT !.i = @ + 1, !.errors = @ + 1]

\* lines 34-46: one turn of the loop
AfterResponse(frame, response) ==
    IF response = "200"
    THEN [frame EXCEPT !.i = @ + 1, !.times = Append(@, "ms"), !.success = @ + 1]
    ELSE IF response = "non-200"
    THEN [frame EXCEPT !.i = @ + 1, !.failed = @ + 1]
    ELSE [frame EXCEPT !.i = @ + 1, !.errors = @ + 1]

RbRequest ==
    /\ pc = "rb_loop"
    /\ rb.i < NumRequests
    /\ \E response \in ResponseOutcomes : rb' = AfterResponse(rb, response)
    /\ UNCHANGED <<pc, exc, notRb>>

\* lines 49-59 and 68: the statistics and 0, or the error line and 1, which
\* sys.exit makes the status of the process
RbReport ==
    /\ pc = "rb_loop"
    /\ rb.i = NumRequests
    /\ rb' = IF rb.times # <<>>
             THEN [rb EXCEPT !.report = Some("statistics"), !.ret = Some(0),
                             !.status = Some(0)]
             ELSE [rb EXCEPT !.report = Some("no successful requests"), !.ret = Some(1),
                             !.status = Some(1)]
    /\ pc' = "done"
    /\ UNCHANGED <<exc, notRb>>

NextRemote ==
    \/ RbReady
    \/ RbRequest
    \/ RbReport

SpecRemote == InitRemote /\ [][NextRemote]_vars

(***************************************************************************)
(* The HTTP smoke-test scripts test_endpoints.py and                       *)
(* scripts/test_onnx_service.py.  A probe sends one or two GET requests;   *)
(* what the serving process does with a request is an input: it answers    *)
(* 200 (with or without a JSON body), answers another status, refuses the  *)
(* connection, or accepts it and never responds.                           *)
(***************************************************************************)
\* test_endpoints.py lines 9, 21, 34, 39: timeout=10
ProbeTimeout == 10

ServerOutcomes == {"200", "200-nojson", "non-2xx", "refused", "hang"}

\* how requests.get(url, timeout=...) ends for the caller: a status, an
\* exception, or never when the server hangs and no timeout was given
Answer(outcome, timeout) ==
    IF outcome = "refused" THEN "raises"
    ELSE IF outcome = "hang"
    THEN IF timeout.tag = "Some" THEN "raises" ELSE "blocks"
    ELSE outcome

Is200(answer) == answer \in {"200", "200-nojson"}

\* the frame after a request of `probe` was issued and ended with `answer`
Requested(frame, probe, timeout, answer) ==
    [frame EXCEPT !.requests = Append(@, [probe |-> probe, timeout |-> timeout,
                                          answer |-> answer])]

\* the frame after `probe` returned or printed its verdict
Probed(frame, probe, ok) ==
    [frame EXCEPT !.probes = Append(@, [probe |-> probe, ok |-> ok])]

notSt == <<entry, exc, clock, rss, log, bm, fs, cmp, val, cv, cli, rb>>

InitSmoke ==
    /\ InitCommon
    /\ rss = 0
    /\ bm = IdleBm
    /\ fs = <<>>
    /\ cmp = IdleCmp
    /\ val = IdleVal
    /\ cv = IdleCv
    /\ cli = IdleCli
    /\ rb = IdleRb
    /\ st = IdleSt
    /\ \/ entry = "test_services" /\ pc = "ollama"
       \/ entry = "test_onnx_service" /\ pc = "health"

\* test_endpoints.py lines 5-27: one GET with a timeout; True iff it answered 200
DirectProbe(probe, next) ==
    /\ entry = "test_services" /\ pc = probe
    /\ \E outcome \in ServerOutcomes :
          LET answer == Answer(outcome, Some(ProbeTimeout))
          IN  st' = Probed(Requested(st, probe, Some(ProbeTimeout), answer),
                           probe, Is200(answer))
    /\ pc' = next
    /\ UNCHANGED notSt

\* lines 5-15 and line 53
TeOllama == DirectProbe("ollama", "onnx")

\* lines 17-27 and line 54
TeOnnx == DirectProbe("onnx", "nginx")

\* lines 29-45 and line 58: two GETs through the gateway; True unless one raises
TeNginx ==
    /\ entry = "test_services" /\ pc = "nginx"
    /\ \E first \in ServerOutcomes, second \in ServerOutcomes :
          LET a1 == Answer(first, Some(ProbeTimeout))
              a2 == Answer(second, Some(ProbeTimeout))
              r1 == Requested(st, "nginx", Some(ProbeTimeout), a1)
              r2 == Requested(r1, "nginx", Some(ProbeTimeout), a2)
          IN  st' = IF a1 = "raises" THEN Probed(r1, "nginx", FALSE)
                    ELSE Probed(r2, "nginx", a2 # "raises")
    /\ pc' = "summary"
    /\ UNCHANGED notSt

\* mutant: one passing probe is enough
ServicesStatusAny(probes) ==
    IF \E k \in 1..Len(probes) : probes[k].ok THEN 0 ELSE 1

\* lines 66-70: all([ollama_ok, onnx_ok, nginx_ok]); sys.exit(0 if success else 1)
ServicesStatus(probes) ==
    IF \A k \in 1..Len(probes) : probes[k].ok THEN 0 ELSE 1

\* lines 60-70
TeSummary ==
    /\ entry = "test_services" /\ pc = "summary"
    /\ st' = [st EXCEPT !.status = Some(ServicesStatus(st.probes))]
    /\ pc' = "exited"
    /\ UNCHANGED notSt

\* one try block of test_onnx_service: a GET without timeout, a line with the
\* status whatever it is, the JSON body read when the status is 200; any
\* exception prints the failure line.  `fatal` says whether that returns 1.
ServiceProbe(probe, next, fatal) ==
    /\ entry = "test_onnx_service" /\ pc = probe
    /\ \E outcome \in ServerOutcomes :
          LET answer == Answer(outcome, None)
              sent == Requested(st, probe, None, answer)
          IN  IF answer = "blocks"
              THEN st' = sent /\ pc' = "hung"
              ELSE IF answer \in {"raises", "200-nojson"}
              THEN IF fatal
                   THEN /\ st' = [Probed(sent, probe, FALSE) EXCEPT !.status = Some(1)]
                        /\ pc' = "exited"
                   ELSE /\ st' = Probed(sent, probe, FALSE)
                        /\ pc' = next
              ELSE /\ st' = Probed(sent, probe, TRUE)
                   /\ pc' = next
    /\ UNCHANGED notSt

\* scripts/test_onnx_service.py lines 16-25
TosHealth == ServiceProbe("health", "metadata", TRUE)

\* lines 27-35
TosMetadata == ServiceProbe("metadata", "ready", FALSE)

\* lines 37-44
TosReady == ServiceProbe("ready", "return", FALSE)

\* lines 46-52: return 0
TosReturn ==
    /\ entry = "test_onnx_service" /\ pc = "return"
    /\ st' = [st EXCEPT !.status = Some(0)]
    /\ pc' = "exited"
    /\ UNCHANGED notSt

NextSmoke ==
    \/ TeOllama
    \/ TeOnnx
    \/ TeNginx
    \/ TeSummary
    \/ TosHealth
    \/ TosMetadata
    \/ TosReady
    \/ TosReturn

SpecSmoke == InitSmoke /\ [][NextSmoke]_vars

(***************************************************************************)
(* Properties of benchmark_model (checked under SpecBenchmark).            *)
(***************************************************************************)
Occurrences(e) == {k \in 1..Len(log) : log[k] = e}

\* the inference calls made between the two perf_counter readings
TimedCalls ==
    {k \in Occurrences("session.run") :
        \E a, b \in Occurrences("perf_counter") : a < k /\ k < b}

RatAdd(x, y) ==
    LET g == GCD(x.den, y.den)
    IN  Rat(x.num * (y.den \div g) + y.num * (x.den \div g), x.den * (y.den \div g))

RatMul(x, y) == Rat(x.num * y.num, x.den * y.den)

RatLess(x, y) == x.num * y.den < y.num * x.den

Returned == entry = "benchmark_model" /\ pc = "done"

\* C1: when benchmark_model(warmup=W, runs=R) returns, the reported 'runs' is R,
\* exactly R inference calls were made between the two timestamps, and W + R
\* inference calls were made in all, whatever W is.
C1_SampleCountIsRuns ==
    Returned =>
        /\ bm.ret.runs = bm.runs
        /\ Cardinality(TimedCalls) = bm.runs
        /\ Cardinality(Occurrences("session.run")) = bm.warmup + bm.runs

C1_Witness ==
    /\ Returned
    /\ bm.warmup = MaxWarmup
    /\ bm.runs >= 2
    /\ bm.ret.runs = bm.runs

\* C2: the returned memory_mb is never negative; it is max(0, end_mem - start_mem)
\* for every pair of readings, an end reading below the start reading included.
C2_MemoryNeverNegative ==
    Returned =>
        /\ ~RatIsNeg(bm.ret.memory_mb)
        /\ IF RatLess(bm.end_mem, bm.start_mem)
           THEN bm.ret.memory_mb = Zero
           ELSE RatAdd(bm.start_mem, bm.ret.memory_mb) = bm.end_mem

C2_Witness ==
    /\ Returned
    /\ RatLess(bm.end_mem, bm.start_mem)
    /\ bm.ret.memory_mb = Zero

\* C3: for R >= 1 and elapsed time T > 0, avg_latency * R = T * 1000 and
\* throughput * T = R, where T is the one interval end_time - start_time that is
\* also returned as total_time.
C3_StatisticsConsistent ==
    Returned =>
        /\ bm.ret.total_time = Rat(bm.end_time - bm.start_time, 1)
        /\ RatMulInt(bm.ret.avg_latency, bm.runs) = RatMulInt(bm.ret.total_time, 1000)
        /\ RatMul(bm.ret.throughput, bm.ret.total_time) = Rat(bm.runs, 1)

C3_Witness ==
    /\ Returned
    /\ bm.runs = 3
    /\ bm.ret.total_time = Rat(2, 1)
    /\ bm.ret.avg_latency = Rat(2000, 3)
    /\ bm.ret.throughput = Rat(3, 2)

\* Lemma (SpecBenchmark): every way the step-by-step benchmark_model ends is one
\* of the outcomes compare_models is given for its call.
\* A model whose generated inputs the runtime rejects counts as one that cannot
\* run; a call whose input generation itself raises is left out.
SummaryKind ==
    IF bm.model = "load_fails" THEN "load_fails"
    ELSE IF bm.input_data.tag = "Some" /\ RunRaises(bm) THEN "run_fails"
    ELSE "ok"

SummaryCoversCall ==
    entry = "benchmark_model" =>
        /\ pc = "done" =>
              [tag |-> "return", value |-> bm.ret]
                  \in BenchmarkOutcomes(SummaryKind, bm.warmup, bm.runs)
        /\ (pc = "raised" /\ exc \in {"LoadError", "RunError"}) =>
              [tag |-> "raise", exc |-> exc]
                  \in BenchmarkOutcomes(SummaryKind, bm.warmup, bm.runs)

(***************************************************************************)
(* Properties of compare_models (checked under SpecCompare).               *)
(***************************************************************************)
\* the paths among the first k whose benchmark returned
Succeeded(k) == {j \in 1..k : cmp.outcomes[j].tag = "return"}

LastWithName(k, n) ==
    CHOOSE j \in Succeeded(k) :
        /\ Stem(cmp.model_paths[j]) = n
        /\ \A h \in Succeeded(k) : Stem(cmp.model_paths[h]) = n => h <= j

\* what the mapping must be after k paths: one entry per display name of a
\* model that succeeded, holding the result that model's benchmark returned
ExpectedResults(k) ==
    [n \in {Stem(cmp.model_paths[j]) : j \in Succeeded(k)} |->
        cmp.outcomes[LastWithName(k, n)].value]

\* C4: a failing model never aborts the batch: every path is benchmarked, the
\* mapping holds entries for the models that succeeded and nothing produced by a
\* failed one, and a failure leaves the entries recorded so far unchanged.
C4_FailureNeverAbortsBatch ==
    /\ Len(cmp.outcomes) = cmp.k
    /\ cmp.results = ExpectedResults(cmp.k)
    /\ (entry = "compare_models" /\ pc = "done") =>
           /\ cmp.k = Len(cmp.model_paths)
           /\ exc = "none"

C4_Witness ==
    /\ entry = "compare_models" /\ pc = "done"
    /\ cmp.model_paths = <<PathA, PathB, PathC>>
    /\ cmp.outcomes[1].tag = "return"
    /\ cmp.outcomes[2].tag = "raise"
    /\ cmp.outcomes[3].tag = "return"
    /\ DOMAIN cmp.results = {Stem(PathA), Stem(PathC)}
    /\ cmp.results[Stem(PathA)] = cmp.outcomes[1].value

\* C5: when every path benchmarks successfully, compare_models returns one
\* entry per path: the size of the mapping is the number of paths.
C5_OneEntryPerPath ==
    (/\ entry = "compare_models" /\ pc = "done"
     /\ Succeeded(cmp.k) = 1..Len(cmp.model_paths))
        => Cardinality(DOMAIN cmp.results) = Len(cmp.model_paths)

(***************************************************************************)
(* Properties of convert_model (checked under SpecConvert).                *)
(***************************************************************************)
\* s spells the lower-case word w, in any letter case
Spells(s, w) ==
    /\ Len(s) = Len(w)
    /\ \A i \in 1..Len(w) :
          \/ s[i] = w[i]
          \/ \E k \in 1..Len(LowerCase) : LowerCase[k] = w[i] /\ UpperCase[k] = s[i]

Dispatched == entry = "convert_model" /\ pc # "cv_dispatch"

\* C10: 'pytorch' in any letter case invokes only the PyTorch converter,
\* 'tensorflow' in any letter case only the TensorFlow converter, any other value
\* raises ValueError with no converter invoked; a successful call returns the
\* caller's output_path (as a Path).
C10_ExactlyOneStrategy ==
    /\ Len(cv.invoked) <= 1
    /\ Dispatched =>
          IF Spells(cv.model_type, StrPytorch)
          THEN cv.invoked = <<"_convert_pytorch">>
          ELSE IF Spells(cv.model_type, StrTensorflow)
          THEN cv.invoked = <<"_convert_tensorflow">>
          ELSE cv.invoked = <<>> /\ pc = "raised" /\ exc = "ValueError"
    /\ (entry = "convert_model" /\ pc = "done") =>
          /\ exc = "none"
          /\ cv.ret = SelectSeq(SplitOn(cv.output_path, "/"), IsRealPart)

C10_Witness ==
    /\ entry = "convert_model" /\ pc = "done"
    /\ cv.model_type = <<"P", "y", "T", "o", "r", "c", "h">>
    /\ cv.invoked = <<"_convert_pytorch">>
    /\ cv.output_path = PathOutDot
    /\ cv.ret = << <<"o", "u", "t">>, <<"m", ".", "o", "n", "n", "x">> >>

(***************************************************************************)
(* Properties of validate_model (checked under SpecValidate).              *)
(***************************************************************************)
Validated == entry = "validate_model" /\ pc = "done"

LoadSucceeded ==
    /\ "model_loaded" \in DOMAIN val.report
    /\ val.report["model_loaded"].passed

FourKeys == {"model_loaded", "model_inputs", "model_outputs", "inference_test"}

NonEmptyNames(specs) == {i \in 1..Len(specs) : specs[i] = <<>>} = {}

\* C6 as stated: after a successful load the report has exactly the four keys,
\* model_inputs passes iff N > 0 and model_outputs passes iff M > 0.
C6_PassIffDeclared ==
    (Validated /\ LoadSucceeded) =>
        /\ DOMAIN val.report = FourKeys
        /\ (val.report["model_inputs"].passed <=> Len(val.inputs) > 0)
        /\ (val.report["model_outputs"].passed <=> Len(val.outputs) > 0)

\* C6, amended: after a successful load the report has exactly the four keys,
\* model_inputs passes iff N > 0 and every input has a non-empty name, and
\* model_outputs passes iff M > 0 and every output has a non-empty name.
C6_PassIffDeclaredAndNamed ==
    (Validated /\ LoadSucceeded) =>
        /\ DOMAIN val.report = FourKeys
        /\ (val.report["model_inputs"].passed
              <=> (Len(val.inputs) > 0 /\ NonEmptyNames(val.inputs)))
        /\ (val.report["model_outputs"].passed
              <=> (Len(val.outputs) > 0 /\ NonEmptyNames(val.outputs)))

C6_Witness ==
    /\ Validated /\ LoadSucceeded
    /\ val.inputs = << <<"x">>, <<"y">> >>
    /\ val.outputs = <<>>
    /\ val.report["model_inputs"].passed
    /\ ~val.report["model_outputs"].passed

\* C7: validating a path that does not exist raises FileNotFoundError, never
\* ModelCorrupt, and produces no report.
C7_MissingRaisesNotFound ==
    (entry = "validate_model" /\ val.file = "missing") =>
        /\ val.report = <<>>
        /\ exc \in {"none", "FileNotFoundError"}
        /\ pc \in {"val_load", "raised"}
        /\ pc = "raised" => exc = "FileNotFoundError"

C7_Witness ==
    /\ entry = "validate_model" /\ val.file = "missing"
    /\ pc = "raised" /\ exc = "FileNotFoundError"
    /\ val.report = <<>>

\* C8: validating an existing file of non-model bytes ends in a handled load
\* failure: ModelCorrupt is raised, or a report with model_loaded failed is
\* returned; model_loaded is never passed and no other error is raised.
C8_GarbageIsLoadFailure ==
    (entry = "validate_model" /\ val.file = "garbage") =>
        /\ ~LoadSucceeded
        /\ exc \in {"none", "ModelCorrupt"}
        /\ pc \in {"val_load", "raised", "done"}
        /\ pc = "raised" => exc = "ModelCorrupt"
        /\ pc = "done" =>
              /\ "model_loaded" \in DOMAIN val.report
              /\ ~val.report["model_loaded"].passed

C8_Witness ==
    /\ entry = "validate_model" /\ val.file = "garbage"
    /\ pc = "raised" /\ exc = "ModelCorrupt"

IsPrefix(s, t) == Len(s) <= Len(t) /\ s = SubSeq(t, 1, Len(s))

\* C9: the steps run in the order load, inputs, outputs, inference, none twice;
\* after a failed load no later check is attempted; after a successful load
\* all three later checks are attempted and recorded whatever their outcomes.
C9_LinearSteps ==
    entry = "validate_model" =>
        /\ IsPrefix(val.attempted, StepOrder)
        /\ (pc \in {"done", "raised"} /\ ~LoadSucceeded) =>
              /\ val.attempted = <<"model_loaded">>
              /\ DOMAIN val.report \subseteq {"model_loaded"}
        /\ (pc = "done" /\ LoadSucceeded) =>
              /\ val.attempted = StepOrder
              /\ DOMAIN val.report = FourKeys
        /\ (pc = "raised") => ~LoadSucceeded

C9_Witness ==
    /\ Validated /\ LoadSucceeded
    /\ ~val.report["model_inputs"].passed
    /\ val.report["model_outputs"].passed
    /\ ~val.report["inference_test"].passed
    /\ val.attempted = StepOrder

(***************************************************************************)
(* Properties of the inputs of benchmark_model (checked under              *)
(* SpecBenchmark).                                                         *)
(***************************************************************************)
\* the shapes have been settled (line 49 is passed)
ShapesSettled == entry = "benchmark_model" /\ bm.shapes.tag = "Some"

\* C19: when no input shapes are supplied, benchmark_model derives one shape per
\* declared model input, of the declared rank, keeping every dimension that is
\* a positive integer and putting 1 for every other dimension (symbolic, unset,
\* zero or negative); supplied shapes are used as given.
C19_DerivedShapes ==
    ShapesSettled =>
        IF bm.input_shapes.tag = "None"
        THEN /\ Len(bm.shapes.v) = Len(bm.declared)
             /\ \A k \in 1..Len(bm.declared) :
                   /\ Len(bm.shapes.v[k]) = Len(bm.declared[k].shape)
                   /\ \A d \in 1..Len(bm.declared[k].shape) :
                         LET dim == bm.declared[k].shape[d]
                         IN  /\ (dim.kind = "int" /\ dim.v > 0) => bm.shapes.v[k][d] = dim.v
                             /\ ~(dim.kind = "int" /\ dim.v > 0) => bm.shapes.v[k][d] = 1
        ELSE bm.shapes.v = bm.input_shapes.v

\* shapes derived for x[N, 2] and y[-1, 0, 2], and the call returned
C19_Witness ==
    /\ Returned
    /\ bm.input_shapes.tag = "None"
    /\ Len(bm.declared) = 2
    /\ bm.shapes.v = << <<1, 2>>, <<1, 1, 2>> >>

\* C20: the random input tensors are generated once, before the first inference
\* call, and every warmup and timed call is fed those same tensors unchanged;
\* a call that returns has fed them warmup + runs times.
C20_InputsGeneratedOnce ==
    entry = "benchmark_model" =>
        /\ \A g \in Occurrences("randn"), k \in Occurrences("session.run") : g < k
        /\ Len(bm.fed) = Cardinality(Occurrences("session.run"))
        /\ bm.fed # <<>> =>
              /\ bm.input_data.tag = "Some"
              /\ Cardinality(Occurrences("randn")) = Cardinality(DOMAIN bm.input_data.v)
        /\ \A k \in 1..Len(bm.fed) : bm.fed[k] = bm.input_data
        /\ Returned => Len(bm.fed) = bm.warmup + bm.runs

\* a returned call with warmup and several timed runs, all fed two tensors
C20_Witness ==
    /\ Returned
    /\ bm.warmup >= 1
    /\ bm.runs >= 2
    /\ Len(bm.fed) = bm.warmup + bm.runs
    /\ Cardinality(DOMAIN bm.input_data.v) = 2

(***************************************************************************)
(* Properties of convert_model's failures (checked under SpecConvert).     *)
(***************************************************************************)
\* C12: an error raised by the framework's load or export routine reaches the
\* caller of convert_model as a ConversionFailure wrapping it.
C12_FrameworkErrorsWrapped ==
    (entry = "convert_model" /\ pc = "raised" /\ cv.calls # <<>>)
        => exc = "ConversionFailure"

(***************************************************************************)
(* Properties of the command lines (checked under SpecCli).                *)
(***************************************************************************)
Cmd(c) == entry = "cli" /\ cli.argv.cmd = c

Exited == entry = "cli" /\ pc = "exited"

HasLine(kind) == \E k \in 1..Len(cli.out) : cli.out[k].kind = kind

\* the strategy found its framework missing
StrategyLacksFramework ==
    \/ cv.invoked = <<"_convert_pytorch">> /\ ~cv.torch /\ pc # "pt_import"
    \/ cv.invoked = <<"_convert_tensorflow">> /\ ~cv.tf /\ pc # "tf_import"

\* C11: a strategy whose framework is not installed raises ImportError carrying
\* an install hint before any load or export routine is called, and the convert
\* command then prints that hint in its error line and exits 1; `convert keras`
\* and `convert saved-model` answer an ImportError with their own install hint
\* and exit 1, and keras calls no converter when its own import fails.
C11_MissingDependencyFatal ==
    /\ (Cmd("convert") /\ StrategyLacksFramework) =>
          /\ exc = "ImportError"
          /\ cv.msg.tag = "Some"
          /\ cv.msg.v.hint # ""
          /\ cv.calls = <<>>
          /\ pc \in {"raised", "exited"}
          /\ pc = "exited" =>
                /\ cli.code = Some(1)
                /\ cli.out = <<Line("error", cv.msg.v.hint)>>
    /\ (Exited /\ cli.argv.cmd \in {"keras", "saved-model"} /\ exc = "ImportError") =>
          /\ cli.code = Some(1)
          /\ Len(cli.out) = 1
          /\ cli.out[1].kind = "error"
          /\ cli.out[1].hint # ""
          /\ (cli.argv.cmd = "keras" /\ ~cli.argv.tf
              /\ cli.argv.input_shape.tag = "Some" /\ cli.argv.input_shape.v # <<>>)
                 => cli.calls = <<>>

\* `convert tensorflow m.pt` without tensorflow: hint printed, exit 1, nothing
\* loaded or exported
C11_Witness ==
    /\ Cmd("convert") /\ pc = "exited"
    /\ cv.invoked = <<"_convert_tensorflow">>
    /\ exc = "ImportError"
    /\ cv.calls = <<>>
    /\ cli.code = Some(1)
    /\ cli.out = <<Line("error", "Install with: pip install tensorflow tf2onnx")>>

\* C13: a convert command that click accepts calls convert_model exactly once
\* (each framework routine at most once); it prints the success line and exits 0
\* exactly when convert_model returned, and prints an error line and exits 1
\* when convert_model raised.  A command click rejects exits 2 with no call.
C13_ConvertExitCodes ==
    (Cmd("convert") /\ pc = "exited") =>
        IF cli.code = Some(2)
        THEN cli.calls = <<>> /\ cv.invoked = <<>>
        ELSE /\ cli.calls = <<"convert_model">>
             /\ Len(cv.invoked) <= 1
             /\ \A a, b \in 1..Len(cv.calls) : cv.calls[a] = cv.calls[b] => a = b
             /\ exc = "none" <=> (cli.code = Some(0))
             /\ exc = "none" => (Len(cli.out) = 1 /\ cli.out[1].kind = "success")
             /\ exc # "none" =>
                   /\ cli.code = Some(1)
                   /\ Len(cli.out) = 1
                   /\ cli.out[1].kind = "error"

\* the export routine raised: error line, exit 1, one call of convert_model
C13_Witness ==
    /\ Cmd("convert") /\ pc = "exited"
    /\ exc = "ExportError"
    /\ cli.calls = <<"convert_model">>
    /\ cv.calls = <<"torch.load", "torch.onnx.export">>
    /\ cli.code = Some(1)

FrameworkCmd == entry = "cli" /\ cli.argv.cmd \in {"pytorch", "keras", "saved-model"}

\* the --input-shape values that are no comma-separated integers
MalformedShapes == {Some(<<"1", ",", "a">>), Some(<<"1", ",", ",", "3">>)}

\* the command fails before it reaches its converter: --input-shape does not
\* parse, or keras cannot import tensorflow to build the signature
FailsBeforeConverter ==
    /\ cli.argv.cmd # "saved-model"
    /\ \/ cli.argv.input_shape \in MalformedShapes
       \/ /\ cli.argv.cmd = "keras"
          /\ ~cli.argv.tf
          /\ cli.argv.input_shape.tag = "Some"
          /\ cli.argv.input_shape.v # <<>>

PathMissing ==
    IF cli.argv.cmd = "benchmark"
    THEN \E k \in 1..Len(cli.argv.model_paths) : fs[cli.argv.model_paths[k]] = "missing"
    ELSE ~cli.argv.exists

\* C16: when a model path given to a command does not exist, click rejects the
\* command line before the body runs: no conversion, validation or benchmark
\* call is made, and the exit status is 2.
C16_MissingPathRejected ==
    (entry = "cli" /\ PathMissing) =>
        /\ pc \in {"cli_parse", "exited"}
        /\ cli.calls = <<>>
        /\ cv.invoked = <<>>
        /\ cv.calls = <<>>
        /\ pc = "exited" => (cli.code = Some(2) /\ ~HasLine("benchmarking"))

\* `benchmark a/m.onnx b/m.onnx` where only the second file is missing
C16_Witness ==
    /\ Cmd("benchmark") /\ pc = "exited"
    /\ Len(cli.argv.model_paths) = 2
    /\ fs[cli.argv.model_paths[1]] = "ok"
    /\ fs[cli.argv.model_paths[2]] = "missing"
    /\ cli.calls = <<>>
    /\ cli.code = Some(2)

\* C17: benchmark --compare with several paths benchmarks every path and prints
\* the table, whether or not some model's benchmark fails.
C17_CompareFailureNonFatal ==
    (Cmd("benchmark") /\ pc = "exited" /\ cli.argv.compare
        /\ Len(cli.argv.model_paths) > 1 /\ cli.calls # <<>>) =>
        /\ cli.calls = cli.argv.model_paths
        /\ HasLine("table")

(***************************************************************************)
(* Properties of the remote benchmark driver (checked under SpecRemote).   *)
(***************************************************************************)
\* C18: at every point of run_benchmark the success counter equals the number of
\* recorded samples and every request that failed (non-200 or raised) added
\* none; the loop is left only after all NumRequests requests, whatever failed;
\* the run then reports statistics and returns 0 if at least one request
\* succeeded, and reports 'no successful requests' and returns 1 otherwise.
C18_SuccessesAreSamples ==
    entry = "run_benchmark" =>
        /\ rb.success = Len(rb.times)
        /\ rb.success + rb.failed + rb.errors = rb.i
        /\ (pc = "done" /\ rb.ready = "200") =>
              /\ rb.i = NumRequests
              /\ IF rb.success >= 1
                 THEN rb.report = Some("statistics") /\ rb.ret = Some(0)
                 ELSE rb.report = Some("no successful requests") /\ rb.ret = Some(1)

\* one success among failures of both kinds: statistics, 0
C18_Witness ==
    /\ entry = "run_benchmark" /\ pc = "done"
    /\ rb.i = NumRequests
    /\ rb.success = 1
    /\ rb.failed >= 1
    /\ rb.errors >= 1
    /\ rb.ret = Some(0)

(***************************************************************************)
(* Order of the steps of benchmark_model (checked under SpecBenchmark).    *)
(***************************************************************************)
Repeat(e, n) == [k \in 1..n |-> e]

\* the calls of a complete benchmark_model(warmup=W, runs=R) that generated n
\* tensors, in order
ExpectedOrder(n, W, R) ==
    <<"InferenceSession">> \o Repeat("randn", n) \o Repeat("session.run", W)
        \o <<"_get_process_memory", "perf_counter">>
        \o Repeat("session.run", R)
        \o <<"perf_counter", "_get_process_memory">>

\* C21: the calls of benchmark_model always form a prefix of the fixed order
\* session, input generation, W warmup calls, start memory reading, start
\* timestamp, R timed calls, end timestamp, end memory reading; once the end
\* memory reading is taken the whole order has been followed, and the elapsed
\* time is at most what R calls can take, so no warmup time is in it.
C21_FixedOrder ==
    entry = "benchmark_model" =>
        LET n == Cardinality(Occurrences("randn"))
            order == ExpectedOrder(n, bm.warmup, bm.runs)
        IN  /\ Len(log) <= Len(order)
            /\ \A k \in 1..Len(log) : k <= Len(order) => log[k] = order[k]
            /\ bm.end_mem # None =>
                  /\ log = order
                  /\ bm.end_time - bm.start_time <= bm.runs * MaxTick

\* a complete call with warmup and timed calls during which time passed
C21_Witness ==
    /\ Returned
    /\ bm.warmup = 2
    /\ bm.runs = 2
    /\ bm.start_time = 2
    /\ bm.end_time = 4
    /\ log = ExpectedOrder(Cardinality(Occurrences("randn")), 2, 2)

(***************************************************************************)
(* Zero runs (checked under SpecHarness).                                  *)
(***************************************************************************)
\* C25: benchmark_model with runs = 0 never returns; when nothing fails before,
\* it makes its warmup calls, takes the four readings around an empty timed
\* block and raises ZeroDivisionError; compare_models with runs = 0 returns a
\* mapping with no entry, every model's benchmark having raised.
C25_ZeroRunsNeverReturns ==
    /\ (entry = "benchmark_model" /\ bm.runs = 0) =>
          /\ pc # "done"
          /\ bm.ret = None
          /\ pc = "raised" =>
                (bm.end_mem # None <=> exc = "ZeroDivisionError")
          /\ bm.end_mem # None =>
                /\ Cardinality(Occurrences("session.run")) = bm.warmup
                /\ TimedCalls = {}
                /\ pc \in {"bm_metrics", "raised"}
    /\ (entry = "compare_models" /\ cmp.runs = 0) =>
          /\ DOMAIN cmp.results = {}
          /\ \A k \in 1..Len(cmp.outcomes) : cmp.outcomes[k].tag = "raise"

\* two loadable models compared with runs = 0: both raise, nothing is returned
C25_Witness ==
    /\ entry = "compare_models" /\ pc = "done"
    /\ cmp.runs = 0
    /\ Len(cmp.model_paths) = 2
    /\ \A k \in 1..2 : fs[cmp.model_paths[k]] = "ok"
    /\ \A k \in 1..2 : cmp.outcomes[k] = [tag |-> "raise", exc |-> "ZeroDivisionError"]
    /\ DOMAIN cmp.results = {}

(***************************************************************************)
(* The input feed of benchmark_model (checked under SpecBenchmark).        *)
(***************************************************************************)
\* how many (declared input, shape) pairs zip yields
Paired == IF Len(bm.declared) <= Len(bm.shapes.v) THEN Len(bm.declared) ELSE Len(bm.shapes.v)

\* every paired shape has at least one dimension and none negative
PairedShapesUsable ==
    \A k \in 1..Paired :
        /\ bm.shapes.v[k] # <<>>
        /\ \A d \in 1..Len(bm.shapes.v[k]) : bm.shapes.v[k][d] >= 0

\* C26: the feed holds exactly one tensor for each of the first
\* min(#declared, #shapes) declared inputs, of the shape at the same position;
\* shapes beyond the declared inputs are ignored, declared inputs beyond the
\* shapes get no tensor, and a mismatch of the two counts raises nothing before
\* the first inference call.
C26_FeedPairsByPosition ==
    (entry = "benchmark_model" /\ bm.shapes.tag = "Some") =>
        /\ bm.input_data.tag = "Some" =>
              /\ DOMAIN bm.input_data.v = {bm.declared[k].name : k \in 1..Paired}
              /\ \A k \in 1..Paired :
                    bm.input_data.v[bm.declared[k].name].shape = bm.shapes.v[k]
        /\ PairedShapesUsable =>
              /\ bm.input_data.tag = "Some"
              /\ Cardinality(Occurrences("randn")) = Paired
              /\ (pc = "raised" /\ exc # "ZeroDivisionError") =>
                    (exc = "RunError" /\ Occurrences("session.run") # {})

\* two declared inputs, one supplied shape: only x is fed and the first
\* inference call is where the call fails
C26_Witness ==
    /\ entry = "benchmark_model" /\ pc = "raised"
    /\ Len(bm.declared) = 2
    /\ bm.input_shapes = Some(<< <<1, 3>> >>)
    /\ DOMAIN bm.input_data.v = {"x"}
    /\ exc = "RunError"
    /\ Len(bm.fed) = 1

(***************************************************************************)
(* Properties of the benchmark command (checked under SpecCli).            *)
(***************************************************************************)
\* C27: the benchmark command given no model path prints an error line, makes
\* no benchmark call and ends with exit status 0.
C27_NoPathsReturnsNormally ==
    (Cmd("benchmark") /\ cli.argv.model_paths = <<>>) =>
        /\ cli.calls = <<>>
        /\ pc \in {"cli_parse", "bench_body", "exited"}
        /\ pc = "exited" =>
              /\ cli.out = <<Line("error", "")>>
              /\ cli.code = Some(0)

\* `benchmark --compare` without any path
C27_Witness ==
    /\ Cmd("benchmark") /\ pc = "exited"
    /\ cli.argv.model_paths = <<>>
    /\ cli.argv.compare
    /\ cli.out = <<Line("error", "")>>
    /\ cli.code = Some(0)

\* the command reached its try block: at least one path, all existing, and
\* --input-shape (if given) parsed
BenchmarkRan ==
    /\ Cmd("benchmark") /\ pc = "exited"
    /\ cli.code # Some(2)
    /\ cli.argv.model_paths # <<>>
    /\ cli.argv.input_shape \notin MalformedShapes

\* C28: a benchmark command that reached its try block benchmarks the paths in
\* turn when --compare is set and several paths are given; otherwise it makes
\* exactly one benchmark call, on the first path, and prints the warning exactly
\* when several paths were given.
C28_OneModelUnlessCompare ==
    BenchmarkRan =>
        IF cli.argv.compare /\ Len(cli.argv.model_paths) > 1
        THEN /\ cli.calls # <<>>
             /\ Len(cli.calls) <= Len(cli.argv.model_paths)
             /\ cli.calls = SubSeq(cli.argv.model_paths, 1, Len(cli.calls))
             /\ ~HasLine("warning")
        ELSE /\ cli.calls = <<cli.argv.model_paths[1]>>
             /\ HasLine("warning") <=> (Len(cli.argv.model_paths) > 1)

\* two different paths without --compare: the first is benchmarked, with the warning
C28_Witness ==
    /\ BenchmarkRan
    /\ ~cli.argv.compare
    /\ Len(cli.argv.model_paths) = 2
    /\ cli.argv.model_paths[1] # cli.argv.model_paths[2]
    /\ cli.calls = <<cli.argv.model_paths[1]>>
    /\ HasLine("warning")
    /\ cli.code = Some(0)

(***************************************************************************)
(* The readiness check of the remote driver (checked under SpecRemote).    *)
(***************************************************************************)
\* C29: a prediction request is sent only after the status request answered
\* 200; when it answered another status or raised a request error, the process
\* ends with status 1 through SystemExit and no prediction request is sent.
C29_ReadinessGatesRun ==
    entry = "run_benchmark" =>
        /\ rb.i > 0 => rb.ready = "200"
        /\ pc = "rb_loop" => rb.ready = "200"
        /\ (rb.ready \in {"non-200", "RequestException"} /\ pc # "rb_ready") =>
              /\ pc = "raised"
              /\ exc = "SystemExit"
              /\ rb.status = Some(1)
              /\ rb.ret = None
              /\ rb.i = 0
              /\ rb.times = <<>>

\* the status request answered 503
C29_Witness ==
    /\ entry = "run_benchmark" /\ pc = "raised"
    /\ rb.ready = "non-200"
    /\ rb.status = Some(1)
    /\ rb.i = 0

(***************************************************************************)
(* The example input of the PyTorch strategy (checked under SpecConvert).  *)
(***************************************************************************)
\* C22: the example input handed to the export routine has the shape the caller
\* supplied, when the caller supplied one.
C22_ExampleInputMatchesCaller ==
    (entry = "convert_model" /\ cv.dummy_input.tag = "Some"
        /\ cv.input_shape.tag = "Some") =>
        cv.dummy_input.v = cv.input_shape.v

(***************************************************************************)
(* Properties of the smoke-test scripts (checked under SpecSmoke).         *)
(***************************************************************************)
SmokeScript == entry \in {"test_services", "test_onnx_service"}

\* C23: when a script has ended, every request of it that met a refused
\* connection, a timeout or a non-2xx status has its probe reported as failed
\* and the exit status is 1.
C23_FailedRequestFailsScript ==
    (SmokeScript /\ pc = "exited") =>
        \A k \in 1..Len(st.requests) :
            st.requests[k].answer \in {"raises", "non-2xx"} =>
                /\ \E j \in 1..Len(st.probes) :
                      /\ st.probes[j].probe = st.requests[k].probe
                      /\ ~st.probes[j].ok
                /\ st.status = Some(1)

\* C24: every request a script issues carries a timeout, and no script is ever
\* left waiting for a response that does not come.
C24_EveryRequestTimesOut ==
    SmokeScript =>
        /\ \A k \in 1..Len(st.requests) : st.requests[k].timeout.tag = "Some"
        /\ pc # "hung"

\* C30: test_services runs the probes in the order Ollama, ONNX Runtime, Nginx
\* gateway, all three whatever the earlier ones returned, and exits 0 exactly
\* when all three returned True, else 1.
C30_AllProbesRun ==
    entry = "test_services" =>
        /\ Len(st.probes) <= 3
        /\ \A k \in 1..Len(st.probes) :
              st.probes[k].probe = <<"ollama", "onnx", "nginx">>[k]
        /\ pc = "exited" =>
              /\ Len(st.probes) = 3
              /\ st.status \in {Some(0), Some(1)}
              /\ (st.status = Some(0)) <=> (\A k \in 1..3 : st.probes[k].ok)

\* the first probe failed, the other two ran and passed: exit 1
C30_Witness ==
    /\ entry = "test_services" /\ pc = "exited"
    /\ Len(st.probes) = 3
    /\ ~st.probes[1].ok
    /\ st.probes[2].ok
    /\ st.probes[3].ok
    /\ st.status = Some(1)

====
